---- MODULE Spec2Model ----
(***************************************************************************)
(* Model of web_scrapper/scraper.py: scrape_page (one scrape attempt over  *)
(* the Playwright engine) and scrape_statistics_canada_daily (the sample   *)
(* runner that optionally saves a JSON projection of the result).          *)
(*                                                                         *)
(* Python strings are sequences of one-character strings, so that string   *)
(* concatenation, prefixes and JSON escaping are computed, not assumed.    *)
(* Every engine call may return normally or raise; a raised exception is   *)
(* either Playwright's TimeoutError or some other Exception.  The exit of  *)
(* the `with sync_playwright()` block is modelled as not raising.          *)
(***************************************************************************)
EXTENDS Integers, Sequences, FiniteSets, TLC

----------------------------------------------------------------------------
(* Bounds *)

MaxTextLen == 1     \* longest title / body text the page yields
MaxMsgLen == 1      \* longest str(e) of a raised exception

----------------------------------------------------------------------------
(* Strings and optional values *)

Q == "\""
BS == "\\"
NL == "\n"

\* Characters a page text is made of: the three that JSON escapes and one
\* non-ASCII character, which ensure_ascii=False writes as it is.
Alphabet == {Q, BS, NL, "é"}

Texts == UNION {[1..k -> Alphabet] : k \in 0..MaxTextLen}

Htmls == {<<>>, <<"<", "p", ">">>}

Msgs == UNION {[1..k -> {"x"}] : k \in 0..MaxMsgLen}

None == [tag |-> "None", val |-> <<>>]

Str(s) == [tag |-> "str", val |-> s]

Path(parts) == [tag |-> "Path", val |-> parts]

\* Python truth value of an Optional[str] / Optional[Path] argument:
\* None and "" are false, a Path object is always true.
TruthyNonNone(v) == v.tag # "None"

Truthy(v) ==
    CASE v.tag = "None" -> FALSE
      [] v.tag = "str" -> Len(v.val) > 0
      [] v.tag = "Path" -> TRUE

HasPrefix(s, p) == Len(s) >= Len(p) /\ SubSeq(s, 1, Len(p)) = p

----------------------------------------------------------------------------
(* scrape_page *)

KINDS == {"Timeout", "Other"}

TimeoutPrefix ==
    << "T", "i", "m", "e", "o", "u", "t", " ", "e", "r", "r", "o", "r", ":", " " >>

GenericPrefix ==
    << "E", "r", "r", "o", "r", " ", "s", "c", "r", "a", "p", "i", "n", "g", " ",
       "p", "a", "g", "e", ":", " " >>

DEFAULT_HEADLESS == TRUE

DEFAULT_TIMEOUT == 30000

InitialResult(u) ==
    [success |-> FALSE, url |-> u, title |-> <<>>, content |-> <<>>,
     html |-> <<>>, error |-> <<>>]

NoResult == InitialResult(<<>>)

NoExc == [kind |-> "none", msg |-> <<>>, step |-> "none"]

\* The two except clauses: the text stored in result["error"].
ErrorTextSwapped(e) ==
    IF e.kind = "Timeout" THEN GenericPrefix \o e.msg ELSE TimeoutPrefix \o e.msg

ErrorText(e) ==
    IF e.kind = "Timeout" THEN TimeoutPrefix \o e.msg ELSE GenericPrefix \o e.msg

\* Statement order inside the with block: the position after a statement
\* that completed normally.
NextPcExtractSwapped(step) ==
    CASE step = "entry" -> "enter"
      [] step = "enter" -> "launch"
      [] step = "launch" -> "new_page"
      [] step = "new_page" -> "goto"
      [] step = "wait_for_selector" -> "title"
      [] step = "title" -> "content"
      [] step = "content" -> "set_success"
      [] step = "set_success" -> "inner_text"
      [] step = "inner_text" -> "close"
      [] step = "close" -> "with_exit"

NextPc(step) ==
    CASE step = "entry" -> "enter"
      [] step = "enter" -> "launch"
      [] step = "launch" -> "new_page"
      [] step = "new_page" -> "goto"
      [] step = "wait_for_selector" -> "title"
      [] step = "title" -> "inner_text"
      [] step = "inner_text" -> "content"
      [] step = "content" -> "set_success"
      [] step = "set_success" -> "close"
      [] step = "close" -> "with_exit"

\* `if wait_for_selector:` after goto.
AfterGotoNonNone(wfs) == IF TruthyNonNone(wfs) THEN "wait_for_selector" ELSE "title"

AfterGoto(wfs) == IF Truthy(wfs) THEN "wait_for_selector" ELSE "title"

\* Where control goes when a statement inside the with block raises: the
\* block is left through the context manager's exit, then the except clauses.
UnwindNoExit == "except"

Unwind == "with_exit"

VARIABLES
    caller,             \* "direct": scrape_page called directly; "statcan": through the runner
    url, headless, timeout, wait_for_selector,   \* scrape_page's arguments
    output_file,        \* scrape_statistics_canada_daily's argument
    pc,                 \* position inside scrape_page
    result,             \* scrape_page's result dict
    exc,                \* the exception raised inside the try block, if any
    calls,              \* engine calls made so far, in order, with their outcome
    pw,                 \* sync_playwright context: "none", "entered", "exited"
    browser,            \* browser handle: "none", "open", "closed"
    rpc,                \* position inside scrape_statistics_canada_daily
    fs,                 \* the filesystem: directories and regular files
    stdout,             \* lines printed by the runner
    outcome,            \* how the outermost call ended: "running", "returned", "raised"
    ret,                \* the value the outermost call returned
    rexc                \* the exception that left scrape_statistics_canada_daily

vars == << caller, url, headless, timeout, wait_for_selector, output_file, pc,
           result, exc, calls, pw, browser, rpc, fs, stdout, outcome, ret, rexc >>

scrapeArgs == << url, headless, timeout, wait_for_selector >>

runnerVars == << rpc, fs, stdout, rexc, output_file, caller >>

Invoke(op, args, ok) == calls' = Append(calls, [op |-> op, args |-> args, ok |-> ok])

\* An engine call raises: some exception of either kind, with some message.
Raise(step) ==
    /\ \E k \in KINDS, m \in Msgs : exc' = [kind |-> k, msg |-> m, step |-> step]
    /\ pc' = Unwind

\* lines 37-44
Entry ==
    /\ pc = "entry"
    /\ result' = InitialResult(url)
    /\ pc' = NextPc("entry")
    /\ UNCHANGED << scrapeArgs, runnerVars, exc, calls, pw, browser, outcome, ret >>

\* line 47, entering the with block
Enter ==
    /\ pc = "enter"
    /\ \/ /\ pw' = "entered"
          /\ pc' = NextPc("enter")
          /\ UNCHANGED exc
       \/ /\ \E m \in Msgs : exc' = [kind |-> "Other", msg |-> m, step |-> "enter"]
          /\ pc' = "except"
          /\ UNCHANGED pw
    /\ UNCHANGED << scrapeArgs, runnerVars, result, calls, browser, outcome, ret >>

\* line 49
Launch ==
    /\ pc = "launch"
    /\ \/ /\ Invoke("launch", <<headless>>, TRUE)
          /\ browser' = "open"
          /\ pc' = NextPc("launch")
          /\ UNCHANGED exc
       \/ /\ Invoke("launch", <<headless>>, FALSE)
          /\ Raise("launch")
          /\ UNCHANGED browser
    /\ UNCHANGED << scrapeArgs, runnerVars, result, pw, outcome, ret >>

\* line 50
NewPage ==
    /\ pc = "new_page"
    /\ \/ /\ Invoke("new_page", <<>>, TRUE)
          /\ pc' = NextPc("new_page")
          /\ UNCHANGED exc
       \/ /\ Invoke("new_page", <<>>, FALSE)
          /\ Raise("new_page")
    /\ UNCHANGED << scrapeArgs, runnerVars, result, pw, browser, outcome, ret >>

\* lines 53 and 56
Goto ==
    /\ pc = "goto"
    /\ \/ /\ Invoke("goto", <<url, timeout, "networkidle">>, TRUE)
          /\ pc' = AfterGoto(wait_for_selector)
          /\ UNCHANGED exc
       \/ /\ Invoke("goto", <<url, timeout, "networkidle">>, FALSE)
          /\ Raise("goto")
    /\ UNCHANGED << scrapeArgs, runnerVars, result, pw, browser, outcome, ret >>

\* line 57
WaitForSelector ==
    /\ pc = "wait_for_selector"
    /\ \/ /\ Invoke("wait_for_selector", <<wait_for_selector.val, timeout>>, TRUE)
          /\ pc' = NextPc("wait_for_selector")
          /\ UNCHANGED exc
       \/ /\ Invoke("wait_for_selector", <<wait_for_selector.val, timeout>>, FALSE)
          /\ Raise("wait_for_selector")
    /\ UNCHANGED << scrapeArgs, runnerVars, result, pw, browser, outcome, ret >>

\* line 60
Title ==
    /\ pc = "title"
    /\ \/ /\ Invoke("title", <<>>, TRUE)
          /\ \E t \in Texts : result' = [result EXCEPT !.title = t]
          /\ pc' = NextPc("title")
          /\ UNCHANGED exc
       \/ /\ Invoke("title", <<>>, FALSE)
          /\ Raise("title")
          /\ UNCHANGED result
    /\ UNCHANGED << scrapeArgs, runnerVars, pw, browser, outcome, ret >>

\* line 61
InnerText ==
    /\ pc = "inner_text"
    /\ \/ /\ Invoke("inner_text", <<"body">>, TRUE)
          /\ \E t \in Texts : result' = [result EXCEPT !.content = t]
          /\ pc' = NextPc("inner_text")
          /\ UNCHANGED exc
       \/ /\ Invoke("inner_text", <<"body">>, FALSE)
          /\ Raise("inner_text")
          /\ UNCHANGED result
    /\ UNCHANGED << scrapeArgs, runnerVars, pw, browser, outcome, ret >>

\* line 62
Content ==
    /\ pc = "content"
    /\ \/ /\ Invoke("content", <<>>, TRUE)
          /\ \E h \in Htmls : result' = [result EXCEPT !.html = h]
          /\ pc' = NextPc("content")
          /\ UNCHANGED exc
       \/ /\ Invoke("content", <<>>, FALSE)
          /\ Raise("content")
          /\ UNCHANGED result
    /\ UNCHANGED << scrapeArgs, runnerVars, pw, browser, outcome, ret >>

\* line 63
SetSuccess ==
    /\ pc = "set_success"
    /\ result' = [result EXCEPT !.success = TRUE]
    /\ pc' = NextPc("set_success")
    /\ UNCHANGED << scrapeArgs, runnerVars, exc, calls, pw, browser, outcome, ret >>

\* line 66
Close ==
    /\ pc = "close"
    /\ \/ /\ Invoke("close", <<>>, TRUE)
          /\ browser' = "closed"
          /\ pc' = NextPc("close")
          /\ UNCHANGED exc
       \/ /\ Invoke("close", <<>>, FALSE)
          /\ Raise("close")
          /\ UNCHANGED browser
    /\ UNCHANGED << scrapeArgs, runnerVars, result, pw, outcome, ret >>

\* line 47, leaving the with block (normally or by an exception)
WithExit ==
    /\ pc = "with_exit"
    /\ pw' = "exited"
    /\ pc' = IF exc = NoExc THEN "return" ELSE "except"
    /\ UNCHANGED << scrapeArgs, runnerVars, result, exc, calls, browser, outcome, ret >>

\* lines 68-71
Except ==
    /\ pc = "except"
    /\ result' = [result EXCEPT !.error = ErrorText(exc)]
    /\ pc' = "return"
    /\ UNCHANGED << scrapeArgs, runnerVars, exc, calls, pw, browser, outcome, ret >>

\* line 73
Return ==
    /\ pc = "return"
    /\ pc' = "returned"
    /\ IF caller = "direct"
       THEN /\ outcome' = "returned"
            /\ ret' = [returned |-> TRUE, value |-> result]
            /\ UNCHANGED rpc
       ELSE /\ rpc' = "after_scrape"
            /\ UNCHANGED << outcome, ret >>
    /\ UNCHANGED << scrapeArgs, result, exc, calls, pw, browser, fs, stdout, rexc,
                    output_file, caller >>

----------------------------------------------------------------------------
(* scrape_statistics_canada_daily *)

STATCAN_URL ==
    << "h", "t", "t", "p", "s", ":", "/", "/", "w", "w", "w", "1",
       "5", "0", ".", "s", "t", "a", "t", "c", "a", "n", ".", "g",
       "c", ".", "c", "a", "/", "n", "1", "/", "d", "a", "i", "l",
       "y", "-", "q", "u", "o", "t", "i", "d", "i", "e", "n", "/",
       "2", "6", "0", "2", "1", "6", "/", "d", "q", "2", "6", "0",
       "2", "1", "6", "a", "-", "e", "n", "g", ".", "h", "t", "m" >>

STATCAN_SELECTOR == Str(<< "m", "a", "i", "n" >>)

\* The dict written to disk, as its (key, value) items in insertion order.
SaveDataWithHtml(r) ==
    << << << "u", "r", "l" >>, r.url >>,
       << << "t", "i", "t", "l", "e" >>, r.title >>,
       << << "c", "o", "n", "t", "e", "n", "t" >>, r.content >>,
       << << "h", "t", "m", "l" >>, r.html >> >>

SaveData(r) ==
    << << << "u", "r", "l" >>, r.url >>,
       << << "t", "i", "t", "l", "e" >>, r.title >>,
       << << "c", "o", "n", "t", "e", "n", "t" >>, r.content >> >>

\* json.dump(..., indent=2, ensure_ascii=False): string escaping.
JsonEscapeChar(c) ==
    CASE c = Q -> << BS, Q >>
      [] c = BS -> << BS, BS >>
      [] c = NL -> << BS, "n" >>
      [] OTHER -> << c >>

RECURSIVE JsonEscape(_)
JsonEscape(s) ==
    IF s = <<>> THEN <<>> ELSE JsonEscapeChar(Head(s)) \o JsonEscape(Tail(s))

JsonString(s) == << Q >> \o JsonEscape(s) \o << Q >>

RECURSIVE JsonMembers(_, _)
JsonMembers(items, i) ==
    IF i > Len(items) THEN <<>>
    ELSE (IF i = 1 THEN <<>> ELSE << "," >>)
         \o << NL, " ", " " >>
         \o JsonString(items[i][1]) \o << ":", " " >> \o JsonString(items[i][2])
         \o JsonMembers(items, i + 1)

JsonDump(items) ==
    IF items = <<>> THEN << "{", "}" >>
    ELSE << "{" >> \o JsonMembers(items, 1) \o << NL, "}" >>

\* Filesystem: a path is the sequence of its components below the working
\* directory; <<>> is the working directory itself.
Parent(p) == SubSeq(p, 1, Len(p) - 1)

Ancestors(p) == {SubSeq(p, 1, k) : k \in 0..Len(p)}

\* Path.mkdir(parents=True, exist_ok=True) raises when a component of the
\* path exists as a regular file.
MkdirBlocked(f, d) == \E a \in Ancestors(d) : a \in DOMAIN f.files

Mkdir(f, d) == [f EXCEPT !.dirs = @ \cup Ancestors(d)]

\* open(path, "w") raises when the path is a directory or its parent is not one.
OpenBlocked(f, p) == p \in f.dirs \/ Parent(p) \notin f.dirs

WriteFile(f, p, data) ==
    [f EXCEPT !.files = [q \in (DOMAIN f.files) \cup {p} |->
                            IF q = p THEN data ELSE f.files[q]]]

\* lines 86-92
RStart ==
    /\ caller = "statcan"
    /\ rpc = "start"
    /\ stdout' = Append(stdout, << "Scraping Statistics Canada Daily: ", STATCAN_URL >>)
    /\ url' = STATCAN_URL
    /\ wait_for_selector' = STATCAN_SELECTOR
    /\ headless' = DEFAULT_HEADLESS
    /\ timeout' = DEFAULT_TIMEOUT
    /\ pc' = "entry"
    /\ rpc' = "in_scrape"
    /\ UNCHANGED << caller, output_file, result, exc, calls, pw, browser, fs,
                    outcome, ret, rexc >>

\* lines 94-99 and 114-115
RCheckIgnoringSuccess ==
    /\ rpc = "after_scrape"
    /\ stdout' = stdout
    /\ rpc' = IF Truthy(output_file) THEN "mkdir" ELSE "return"
    /\ UNCHANGED << scrapeArgs, caller, output_file, pc, result, exc, calls, pw,
                    browser, fs, outcome, ret, rexc >>

RCheck ==
    /\ rpc = "after_scrape"
    /\ IF result.success
       THEN /\ stdout' = stdout \o << << "Successfully scraped: ", result.title >>,
                                      << "Content length: ", Len(result.content) >> >>
            /\ rpc' = IF Truthy(output_file) THEN "mkdir" ELSE "return"
       ELSE /\ stdout' = Append(stdout, << "Error: ", result.error >>)
            /\ rpc' = "return"
    /\ UNCHANGED << scrapeArgs, caller, output_file, pc, result, exc, calls, pw,
                    browser, fs, outcome, ret, rexc >>

\* A raising write step, had it been wrapped in a handler that gives up on
\* the file and returns the result.
RRaiseSwallowed(step) ==
    /\ rexc' = [kind |-> "OSError", step |-> step]
    /\ rpc' = "return"
    /\ UNCHANGED << outcome, ret >>

\* A statement of the write step raises: nothing in the function catches it.
RRaise(step) ==
    /\ rexc' = [kind |-> "OSError", step |-> step]
    /\ rpc' = "raised"
    /\ outcome' = "raised"
    /\ UNCHANGED ret

\* lines 100-101
RMkdir ==
    /\ rpc = "mkdir"
    /\ \/ /\ ~MkdirBlocked(fs, Parent(output_file.val))
          /\ fs' = Mkdir(fs, Parent(output_file.val))
          /\ rpc' = "open"
          /\ UNCHANGED << outcome, ret, rexc >>
       \/ /\ RRaise("mkdir")
          /\ UNCHANGED fs
    /\ UNCHANGED << scrapeArgs, caller, output_file, pc, result, exc, calls, pw,
                    browser, stdout >>

\* line 110, opening (and truncating) the file
ROpen ==
    /\ rpc = "open"
    /\ \/ /\ ~OpenBlocked(fs, output_file.val)
          /\ fs' = WriteFile(fs, output_file.val, <<>>)
          /\ rpc' = "dump"
          /\ UNCHANGED << outcome, ret, rexc >>
       \/ /\ RRaise("open")
          /\ UNCHANGED fs
    /\ UNCHANGED << scrapeArgs, caller, output_file, pc, result, exc, calls, pw,
                    browser, stdout >>

\* lines 104-113: json.dump and closing the file; a failed write leaves a
\* proper prefix of the document in the file (nothing, half, all but the end).
RDump ==
    /\ rpc = "dump"
    /\ LET data == JsonDump(SaveData(result)) IN
       \/ /\ fs' = WriteFile(fs, output_file.val, data)
          /\ stdout' = Append(stdout, << "Saved to: ", output_file.val >>)
          /\ rpc' = "return"
          /\ UNCHANGED << outcome, ret, rexc >>
       \/ /\ \E n \in {0, Len(data) \div 2, Len(data) - 1} :
                fs' = WriteFile(fs, output_file.val, SubSeq(data, 1, n))
          /\ RRaise("dump")
          /\ UNCHANGED stdout
    /\ UNCHANGED << scrapeArgs, caller, output_file, pc, result, exc, calls, pw,
                    browser >>

\* line 117
RReturn ==
    /\ rpc = "return"
    /\ rpc' = "returned"
    /\ outcome' = "returned"
    /\ ret' = [returned |-> TRUE, value |-> result]
    /\ UNCHANGED << scrapeArgs, caller, output_file, pc, result, exc, calls, pw,
                    browser, fs, stdout, rexc >>

----------------------------------------------------------------------------
(* Initial states and specification *)

Urls == {<<>>, << "u" >>}

Timeouts == {1, DEFAULT_TIMEOUT}

Selectors == {None, Str(<<>>), STATCAN_SELECTOR}

OUTPUT_PATH == Path(<< "output", "statcan_daily.json" >>)

OutputFiles == {None, Str(<<>>), Path(<< "out.json" >>), OUTPUT_PATH}

EmptyFiles == [q \in {} |-> <<>>]

OldData == << "o", "l", "d" >>

InitialFs ==
    { [dirs |-> {<<>>}, files |-> EmptyFiles],
      [dirs |-> {<<>>, << "output" >>},
       files |-> [q \in {<< "output", "statcan_daily.json" >>, << "out.json" >>} |-> OldData]],
      [dirs |-> {<<>>}, files |-> [q \in {<< "output" >>} |-> OldData]],
      [dirs |-> {<<>>, << "out.json" >>}, files |-> EmptyFiles] }

NoRet == [returned |-> FALSE, value |-> NoResult]

NoRExc == [kind |-> "none", step |-> "none"]

Init ==
    /\ caller \in {"direct", "statcan"}
    /\ IF caller = "direct"
       THEN /\ url \in Urls
            /\ headless \in BOOLEAN
            /\ timeout \in Timeouts
            /\ wait_for_selector \in Selectors
            /\ output_file = None
            /\ fs = [dirs |-> {<<>>}, files |-> EmptyFiles]
            /\ pc = "entry"
            /\ rpc = "unused"
       ELSE /\ url = <<>>
            /\ headless = DEFAULT_HEADLESS
            /\ timeout = DEFAULT_TIMEOUT
            /\ wait_for_selector = None
            /\ output_file \in OutputFiles
            /\ fs \in InitialFs
            /\ pc = "idle"
            /\ rpc = "start"
    /\ result = NoResult
    /\ exc = NoExc
    /\ calls = <<>>
    /\ pw = "none"
    /\ browser = "none"
    /\ stdout = <<>>
    /\ outcome = "running"
    /\ ret = NoRet
    /\ rexc = NoRExc

Next ==
    \/ Entry \/ Enter \/ Launch \/ NewPage \/ Goto \/ WaitForSelector
    \/ Title \/ InnerText \/ Content \/ SetSuccess \/ Close \/ WithExit
    \/ Except \/ Return
    \/ RStart \/ RCheck \/ RMkdir \/ ROpen \/ RDump \/ RReturn

Spec == Init /\ [][Next]_vars

----------------------------------------------------------------------------
(* Vocabulary of the properties *)

Invoked(op) == \E i \in 1..Len(calls) : calls[i].op = op

Succeeded(op) == \E i \in 1..Len(calls) : calls[i].op = op /\ calls[i].ok

Failed(op) == \E i \in 1..Len(calls) : calls[i].op = op /\ ~calls[i].ok

Rank(op) ==
    CASE op = "launch" -> 1
      [] op = "new_page" -> 2
      [] op = "goto" -> 3
      [] op = "wait_for_selector" -> 4
      [] op = "title" -> 5
      [] op = "inner_text" -> 6
      [] op = "content" -> 7
      [] op = "close" -> 8

MandatoryOps == {"launch", "new_page", "goto", "title", "inner_text", "content", "close"}

ExtractionOps == {"title", "inner_text", "content"}

\* A reader of the saved document: a JSON object whose values are strings.
BadParse == [ok |-> FALSE, val |-> <<>>, next |-> 0]

RECURSIVE SkipWs(_, _)
SkipWs(s, i) ==
    IF i <= Len(s) /\ s[i] \in {" ", NL} THEN SkipWs(s, i + 1) ELSE i

\* The first position from i on that holds a quote, a backslash or a raw
\* newline (Len(s) + 1 when there is none).
NextSpecial(s, i) ==
    IF \A j \in i..Len(s) : s[j] \notin {Q, BS, NL} THEN Len(s) + 1
    ELSE CHOOSE j \in i..Len(s) :
            /\ s[j] \in {Q, BS, NL}
            /\ \A k \in i..(j - 1) : s[k] \notin {Q, BS, NL}

RECURSIVE ParseChars(_, _, _)
ParseChars(s, i, acc) ==
    LET j == NextSpecial(s, i)
        run == acc \o SubSeq(s, i, j - 1)
    IN CASE j > Len(s) -> BadParse
         [] j <= Len(s) /\ s[j] = Q -> [ok |-> TRUE, val |-> run, next |-> j + 1]
         [] j <= Len(s) /\ s[j] = NL -> BadParse
         [] j < Len(s) /\ s[j] = BS /\ s[j + 1] = Q -> ParseChars(s, j + 2, Append(run, Q))
         [] j < Len(s) /\ s[j] = BS /\ s[j + 1] = BS -> ParseChars(s, j + 2, Append(run, BS))
         [] j < Len(s) /\ s[j] = BS /\ s[j + 1] = "n" -> ParseChars(s, j + 2, Append(run, NL))
         [] OTHER -> BadParse

ParseString(s, i) ==
    IF i <= Len(s) /\ s[i] = Q THEN ParseChars(s, i + 1, <<>>) ELSE BadParse

RECURSIVE ParseMembers(_, _, _)
ParseMembers(s, i, acc) ==
    LET k == ParseString(s, SkipWs(s, i)) IN
    IF ~k.ok THEN BadParse
    ELSE LET c == SkipWs(s, k.next) IN
         IF c > Len(s) \/ s[c] # ":" THEN BadParse
         ELSE LET v == ParseString(s, SkipWs(s, c + 1)) IN
              IF ~v.ok THEN BadParse
              ELSE LET e == SkipWs(s, v.next)
                       items == Append(acc, << k.val, v.val >>)
                   IN IF e > Len(s) THEN BadParse
                      ELSE IF s[e] = "," THEN ParseMembers(s, e + 1, items)
                      ELSE IF s[e] = "}" /\ SkipWs(s, e + 1) > Len(s)
                           THEN [ok |-> TRUE, val |-> items, next |-> e + 1]
                      ELSE BadParse

JsonLoads(s) ==
    LET i == SkipWs(s, 1) IN
    IF i > Len(s) \/ s[i] # "{" THEN BadParse
    ELSE LET j == SkipWs(s, i + 1) IN
         IF j <= Len(s) /\ s[j] = "}"
         THEN IF SkipWs(s, j + 1) > Len(s)
              THEN [ok |-> TRUE, val |-> <<>>, next |-> j + 1] ELSE BadParse
         ELSE ParseMembers(s, j, <<>>)

KeysOf(items) == {items[i][1] : i \in 1..Len(items)}

\* The value a key has in the parsed object (the last one, as json.loads keeps).
ValueOf(items, k) ==
    LET last == CHOOSE i \in 1..Len(items) :
                    /\ items[i][1] = k
                    /\ \A j \in (i + 1)..Len(items) : items[j][1] # k
    IN items[last][2]

KeyUrl == << "u", "r", "l" >>

KeyTitle == << "t", "i", "t", "l", "e" >>

KeyContent == << "c", "o", "n", "t", "e", "n", "t" >>

----------------------------------------------------------------------------
(* Properties *)

\* C1: a record returned by scrape_page with success = TRUE has an empty error.
C1_SuccessHasEmptyError ==
    (pc = "returned" /\ result.success) => result.error = <<>>

\* C2: a record returned with success = FALSE has a non-empty error and empty
\* title, content and html, whichever step failed.
C2_NoPartialResults ==
    (pc = "returned" /\ ~result.success) =>
        /\ result.error # <<>>
        /\ result.title = <<>>
        /\ result.content = <<>>
        /\ result.html = <<>>

C4_FailureReturnsUnsuccessful ==
    /\ caller = "direct" => outcome # "raised"
    /\ (pc = "returned" /\ exc # NoExc) => ~result.success

\* C5: the error text is classified by the kind of the fault: a timeout gives
\* the prefix "Timeout error: ", any other fault gives "Error scraping page: ",
\* never the other way round, and a non-empty error has one of the two prefixes.
C5_ClassificationByKind ==
    pc = "returned" =>
        /\ exc.kind = "Timeout" =>
              /\ HasPrefix(result.error, TimeoutPrefix)
              /\ ~HasPrefix(result.error, GenericPrefix)
        /\ exc.kind = "Other" =>
              /\ HasPrefix(result.error, GenericPrefix)
              /\ ~HasPrefix(result.error, TimeoutPrefix)
        /\ result.error # <<>> =>
              \/ HasPrefix(result.error, TimeoutPrefix)
              \/ HasPrefix(result.error, GenericPrefix)
        /\ exc = NoExc => result.error = <<>>

C5_Witness ==
    /\ pc = "returned"
    /\ exc.kind = "Timeout"
    /\ exc.step = "goto"
    /\ exc.msg # <<>>
    /\ HasPrefix(result.error, TimeoutPrefix)

\* The selector wait follows a successful goto directly whenever `provided`
\* holds, and a timed-out wait ends the call as a timeout failure with no
\* extraction step executed.
WaitStepRule(provided) ==
    /\ \A i \in 1..Len(calls) :
          (calls[i].op = "goto" /\ calls[i].ok /\ provided) =>
              IF i = Len(calls) THEN pc = "wait_for_selector"
              ELSE calls[i + 1].op = "wait_for_selector"
    /\ \A i \in 1..Len(calls) :
          (calls[i].op = "wait_for_selector" /\ ~calls[i].ok /\ exc.kind = "Timeout") =>
              /\ i = Len(calls)
              /\ \A op \in ExtractionOps : ~Invoked(op)
              /\ pc = "returned" =>
                    /\ ~result.success
                    /\ HasPrefix(result.error, TimeoutPrefix)

\* C6 (as claimed): whenever wait_for_selector is any string, the empty one
\* included, the wait runs between goto and the extraction, and its timeout
\* is a timeout failure without extraction.
C6_WaitWheneverProvided == WaitStepRule(wait_for_selector.tag = "str")

\* C6 (amended): whenever wait_for_selector is a non-empty string, the wait
\* runs between goto and the extraction, and its timeout is a timeout failure
\* without extraction; when it is None or the empty string the wait step is
\* never executed.
C6_WaitWhenNonEmpty ==
    /\ WaitStepRule(wait_for_selector.tag = "str" /\ wait_for_selector.val # <<>>)
    /\ (wait_for_selector.tag = "None" \/ wait_for_selector.val = <<>>) =>
          ~Invoked("wait_for_selector")

C6_Witness ==
    /\ pc = "returned"
    /\ Succeeded("goto")
    /\ Failed("wait_for_selector")
    /\ exc.kind = "Timeout"
    /\ ~result.success
    /\ Len(calls) = 4

\* C7: the filesystem changes only in a step taken after the inner scrape
\* returned success = TRUE with an output file given; after a failed scrape
\* no file and no directory is ever created.
C7_WriteOnlyAfterSuccess ==
    [][fs' # fs =>
          /\ caller = "statcan"
          /\ pc = "returned"
          /\ result.success
          /\ Truthy(output_file)]_vars

C7_Witness ==
    /\ caller = "statcan"
    /\ outcome = "returned"
    /\ ~ret.value.success
    /\ output_file = OUTPUT_PATH
    /\ output_file.val \notin DOMAIN fs.files
    /\ Parent(output_file.val) \notin fs.dirs

\* C8: after a successful scrape and a successful write, the file at the
\* given path parses as a JSON object whose keys are exactly url, title and
\* content, with the values of the returned record; nothing else is in it.
C8_SavedFileHoldsProjection ==
    (rpc = "returned" /\ ret.value.success /\ Truthy(output_file)) =>
        /\ output_file.val \in DOMAIN fs.files
        /\ LET doc == JsonLoads(fs.files[output_file.val]) IN
              /\ doc.ok
              /\ Len(doc.val) = 3
              /\ KeysOf(doc.val) = {KeyUrl, KeyTitle, KeyContent}
              /\ ValueOf(doc.val, KeyUrl) = ret.value.url
              /\ ValueOf(doc.val, KeyTitle) = ret.value.title
              /\ ValueOf(doc.val, KeyContent) = ret.value.content

C8_Witness ==
    /\ rpc = "returned"
    /\ ret.value.success
    /\ output_file = OUTPUT_PATH
    /\ ret.value.title = << Q >>
    /\ ret.value.content = << NL >>
    /\ ret.value.html # <<>>
    /\ << "out.json" >> \in DOMAIN fs.files
    /\ fs.files[<< "out.json" >>] = OldData
    /\ fs.files[output_file.val] # OldData

\* C9: a filesystem fault of the write step leaves the runner as a fault: it
\* only happens after the inner scrape returned success = TRUE, the call is
\* then over without a returned record, and the runner raises nothing else.
C9_WriteFaultPropagates ==
    /\ rexc # NoRExc =>
          /\ outcome = "raised"
          /\ ret = NoRet
          /\ rpc = "raised"
          /\ pc = "returned"
          /\ result.success
    /\ outcome = "raised" => rexc # NoRExc

C9_Witness ==
    /\ outcome = "raised"
    /\ rexc.step = "dump"
    /\ result.success
    /\ ret = NoRet

\* C10: the engine steps are invoked in the order launch, new_page, goto,
\* (wait_for_selector), title, inner_text, content, close, each at most once,
\* each only after every earlier step succeeded, and success is TRUE only
\* after title, inner_text and content completed.
C10_StepOrder ==
    /\ \A i, j \in 1..Len(calls) : i < j => Rank(calls[i].op) < Rank(calls[j].op)
    /\ \A i \in 1..Len(calls) : i < Len(calls) => calls[i].ok
    /\ \A i \in 1..Len(calls) : \A op \in MandatoryOps :
          Rank(op) < Rank(calls[i].op) => \E j \in 1..(i - 1) : calls[j].op = op
    /\ result.success => \A op \in ExtractionOps : Succeeded(op)

C10_Witness ==
    /\ pc = "returned"
    /\ result.success
    /\ Len(calls) = 8
    /\ \A i \in 1..Len(calls) : calls[i].ok

====
